---------------------------- MODULE Spec2Model ----------------------------
(***************************************************************************)
(* Status view of the mirror bot: bot/helper/ext_utils/status_utils.py.    *)
(*                                                                         *)
(* The module models the task registry (task_dict) with its lock           *)
(* (task_dict_lock), the per-viewer page memory (status_dict), the         *)
(* aggregator get_specific_tasks / get_all_tasks, the lookup               *)
(* get_task_by_gid, the renderer get_readable_message and the unit         *)
(* formatters.  Texts are sequences of one-character strings, so that      *)
(* formatting and parsing are computed character by character.             *)
(***************************************************************************)
EXTENDS Integers, Sequences, FiniteSets, TLC

VARIABLES
    task_dict,        \* the registry: the task objects in insertion order
    task_dict_lock,   \* the set of coroutines holding the lock: {} or {p}
    next_oid,         \* the identity the next admitted task object gets
    status_dict,      \* viewer id -> [page_no]: the remembered page
    STATUS_LIMIT_CFG, \* Config.STATUS_LIMIT (0: unset)
    pc,               \* per coroutine: where it is suspended
    frame,            \* per coroutine: the locals of its running call
    call,             \* the call of a sequential run: function and arguments
    ret               \* the outcome of that call

vars == <<task_dict, task_dict_lock, next_oid, status_dict, STATUS_LIMIT_CFG, pc, frame, call, ret>>

-----------------------------------------------------------------------------
(* Bounds of the model.                                                    *)

MaxReg == 3          \* registry length in the sequential runs of collect
MaxRenderReg == 2    \* registry length in the sequential runs of render
MaxPageTasks == 3    \* registry length in the runs of page normalization
MaxPage == 5         \* requested pages range over -MaxPage..MaxPage
MaxLimit == 2        \* configured page sizes range over 0..MaxLimit
MaxSeconds == 3700   \* durations -2..MaxSeconds, plus the day samples
MaxDays == 2         \* day samples: 1..MaxDays days plus a remainder
MaxLen == 4          \* length of the texts given to the parsers
MaxPct == 101        \* largest whole percentage given to the progress bar

-----------------------------------------------------------------------------
(* Generic helpers on sequences.                                           *)

Range(s) == {s[i] : i \in 1..Len(s)}

RECURSIVE SeqsUpTo(_, _)
SeqsUpTo(S, n) ==
    IF n = 0 THEN {<<>>}
    ELSE LET shorter == SeqsUpTo(S, n - 1)
         IN  shorter \cup {Append(s, x) : s \in {t \in shorter : Len(t) = n - 1}, x \in S}

Min(a, b) == IF a < b THEN a ELSE b
Max(a, b) == IF a > b THEN a ELSE b

-----------------------------------------------------------------------------
(* MirrorStatus and the STATUSES table.                                    *)

STATUS_DOWNLOAD == "Download"
STATUS_SEED == "Seed"
STATUS_QUEUEUP == "QueueUp"

STATUSES_values ==
    {"All", "Download", "Upload", "QueueDl", "QueueUp", "Archive", "Extract", "Seed",
     "Clone", "Convert", "Split", "SamVid", "FFmpeg", "Pause", "CheckUp"}

-----------------------------------------------------------------------------
(* Task objects.  A task is a record                                       *)
(*   oid      : the identity of the object                                 *)
(*   gid      : what tk.gid() returns                                      *)
(*   listener : "absent" (no listener attribute), "no_user_id" (a listener *)
(*              without user_id) or the listener's user_id                 *)
(*   accessor : "absent" (no status attribute), "sync" or "async"          *)
(*   st       : what status() gives when called: a status text, or         *)
(*              "raise" when the accessor raises an Exception              *)
(*   fault    : the step of the task's block at which rendering raises,    *)
(*              or "none"                                                  *)
(*   progress : task.listener.progress is set (the task shows a bar)       *)
(*   seeding  : the task has a seeding attribute and a callable update     *)
(*   upd      : "ok" or "raise": what update() does                        *)
(***************************************************************************)

Users == {"u1", "u2"}
None == "None"

Task(oid, gid, listener, accessor, st, fault, progress, seeding, upd) ==
    [oid |-> oid, gid |-> gid, listener |-> listener, accessor |-> accessor,
     st |-> st, fault |-> fault, progress |-> progress, seeding |-> seeding, upd |-> upd]

\* A registry built from a sequence of shapes: the i-th object gets identity i.
WithOids(shapes) == [i \in 1..Len(shapes) |-> [shapes[i] EXCEPT !.oid = i, !.gid = i]]

-----------------------------------------------------------------------------
(* get_specific_tasks (lines 89-126).                                      *)
(* The outcome of a call is [raised, result]: raised is "no" or the name   *)
(* of the exception that leaves the function.                              *)

Returned(v) == [raised |-> "no", result |-> v]
Raised(e) == [raised |-> e, result |-> <<>>]

hasattr_listener(tk) == tk.listener # "absent"

\* Evaluating tk.listener.user_id raises AttributeError on a listener
\* without that attribute.
user_id_raises(tk) == tk.listener = "no_user_id"

\* A collection that walks the registry twice.
SelectCandidatesRepeated(reg, user_id) ==
    LET once == SelectSeq(reg, LAMBDA tk : hasattr_listener(tk) /\ (user_id # None => tk.listener = user_id))
    IN  once \o once

\* The list comprehension of lines 92, 94, 97, 99: the tasks it keeps, in
\* registry order.  With a truthy user_id the condition is
\* hasattr(tk, 'listener') and tk.listener.user_id == user_id.
SelectCandidates(reg, user_id) ==
    IF user_id # None
    THEN SelectSeq(reg, LAMBDA tk : hasattr_listener(tk) /\ tk.listener = user_id)
    ELSE SelectSeq(reg, LAMBDA tk : hasattr_listener(tk))

\* The comprehension raises when it reaches a task with a listener that has
\* no user_id (only evaluated for a truthy user_id, after hasattr).
CandidatesRaise(reg, user_id) ==
    user_id # None /\ \E i \in 1..Len(reg) : hasattr_listener(reg[i]) /\ user_id_raises(reg[i])

\* Line 102: iscoroutinefunction(tk.status); evaluating tk.status raises
\* AttributeError on a task without the accessor.
iscoroutinefunction_status(tk) == tk.accessor = "async"
status_attr_raises(tk) == tk.accessor = "absent"

coro_tasks_of(tasks_to_check) == SelectSeq(tasks_to_check, iscoroutinefunction_status)

\* Line 103: gather(..., return_exceptions=True): one entry per coroutine, in
\* order; a failed coroutine contributes its exception object ("raise").
gather_statuses(coro_tasks) == [j \in 1..Len(coro_tasks) |-> coro_tasks[j].st]

\* Line 108: tk in coro_tasks (membership by object identity).
in_coro_tasks(tk, coro_tasks) == \E j \in 1..Len(coro_tasks) : coro_tasks[j].oid = tk.oid

\* Line 111: isinstance(st, Exception).
IsExceptionAlwaysFalse(st) == FALSE
isinstance_Exception(st) == st = "raise"

\* Line 110: coro_index += 1, before the exception test.
NextCoroIndexAfterTest(coro_index, st) == IF st = "raise" THEN coro_index ELSE coro_index + 1
NextCoroIndex(coro_index, st) == coro_index + 1

\* Lines 120-124: the filter test.
StatusMatchesExact(st, status) == st = status
StatusMatches(st, status) ==
    \/ st = status
    \/ /\ status = STATUS_DOWNLOAD
       /\ st \notin STATUSES_values
       /\ st # "All"

\* Lines 105-126: the loop over tasks_to_check, from position i on.
RECURSIVE FilterLoop(_, _, _, _, _, _, _)
FilterLoop(tasks_to_check, coro_tasks, coro_statuses, status, i, coro_index, result) ==
    IF i > Len(tasks_to_check) THEN result
    ELSE
      LET tk == tasks_to_check[i] IN
      IF in_coro_tasks(tk, coro_tasks)
      THEN LET st == coro_statuses[coro_index + 1]      \* the list is 0-based in the source
               ci == NextCoroIndex(coro_index, st)
           IN  IF isinstance_Exception(st)
               THEN FilterLoop(tasks_to_check, coro_tasks, coro_statuses, status, i + 1, ci, result)
               ELSE FilterLoop(tasks_to_check, coro_tasks, coro_statuses, status, i + 1, ci,
                               IF StatusMatches(st, status) THEN Append(result, tk) ELSE result)
      ELSE LET st == tk.st                               \* tk.status(), synchronous
           IN  IF st = "raise"                           \* except Exception: continue
               THEN FilterLoop(tasks_to_check, coro_tasks, coro_statuses, status, i + 1,
                               coro_index, result)
               ELSE FilterLoop(tasks_to_check, coro_tasks, coro_statuses, status, i + 1, coro_index,
                               IF StatusMatches(st, status) THEN Append(result, tk) ELSE result)

\* A collection without the early return of lines 90-94.
get_specific_tasks_polled(reg, status, user_id) ==
    IF CandidatesRaise(reg, user_id) THEN Raised("AttributeError")
    ELSE
      LET tasks_to_check == SelectCandidates(reg, user_id) IN
      IF \E i \in 1..Len(tasks_to_check) : status_attr_raises(tasks_to_check[i])
      THEN Raised("AttributeError")
      ELSE LET coro_tasks == coro_tasks_of(tasks_to_check)
               coro_statuses == gather_statuses(coro_tasks)
           IN  Returned(FilterLoop(tasks_to_check, coro_tasks, coro_statuses, status, 1, 0, <<>>))

get_specific_tasks(reg, status, user_id) ==
    IF CandidatesRaise(reg, user_id) THEN Raised("AttributeError")
    ELSE
      LET tasks_to_check == SelectCandidates(reg, user_id) IN
      IF status = "All" THEN Returned(tasks_to_check)
      ELSE IF \E i \in 1..Len(tasks_to_check) : status_attr_raises(tasks_to_check[i])
           THEN Raised("AttributeError")
           ELSE LET coro_tasks == coro_tasks_of(tasks_to_check)
                    coro_statuses == gather_statuses(coro_tasks)
                IN  Returned(FilterLoop(tasks_to_check, coro_tasks, coro_statuses, status, 1, 0, <<>>))


-----------------------------------------------------------------------------
(* Values of the variables a run does not use.                             *)

NoCall == [fn |-> "none"]
NotDone == [done |-> FALSE, raised |-> "no", result |-> <<>>]
Done(outcome) == [done |-> TRUE, raised |-> outcome.raised, result |-> outcome.result]

NoCoroutines == <<>>

-----------------------------------------------------------------------------
(* Sequential runs of the aggregator: one call of get_specific_tasks on a  *)
(* registry drawn from CollectShapes.                                      *)

CollectStatuses == {"Download", "Seed", "Aria2 v1.37", "raise"}

CollectShapes ==
    \* tasks of u1 with every required field: each accessor kind and outcome
    {Task(0, 0, "u1", a, st, "none", FALSE, FALSE, "ok") : a \in {"sync", "async"}, st \in CollectStatuses}
    \cup
    \* tasks of another owner
    {Task(0, 0, "u2", "sync", "Seed", "none", FALSE, FALSE, "ok"),
     Task(0, 0, "u2", "async", "Download", "none", FALSE, FALSE, "ok")}
    \cup
    \* tasks that lack a required field
    {Task(0, 0, "absent", "sync", "Seed", "none", FALSE, FALSE, "ok"),
     Task(0, 0, "no_user_id", "sync", "Seed", "none", FALSE, FALSE, "ok"),
     Task(0, 0, "u1", "absent", "raise", "none", FALSE, FALSE, "ok")}

CollectFilters == {"All", "Download", "Seed"}
CollectViewers == {None, "u1"}

InitCollect ==
    /\ task_dict \in {WithOids(s) : s \in SeqsUpTo(CollectShapes, MaxReg)}
    /\ call \in {[fn |-> "get_specific_tasks", status |-> f, user_id |-> u] :
                    f \in CollectFilters, u \in CollectViewers}
    /\ ret = NotDone
    /\ task_dict_lock = {}
    /\ next_oid = Len(task_dict) + 1
    /\ status_dict = <<>>
    /\ STATUS_LIMIT_CFG = 0
    /\ pc = NoCoroutines
    /\ frame = NoCoroutines

CallCollect ==
    /\ call.fn = "get_specific_tasks"
    /\ ~ret.done
    /\ ret' = Done(get_specific_tasks(task_dict, call.status, call.user_id))
    /\ UNCHANGED <<task_dict, task_dict_lock, next_oid, status_dict, STATUS_LIMIT_CFG, pc, frame, call>>

SpecCollect == InitCollect /\ [][CallCollect]_vars

-----------------------------------------------------------------------------
(* Claims about the aggregator.                                            *)

RemoveAt(s, i) == [j \in 1..(Len(s) - 1) |-> IF j < i THEN s[j] ELSE s[j + 1]]

\* A task has the fields a call with this user_id reads.
HasRequiredFields(tk, user_id, status) ==
    /\ tk.listener # "absent"
    /\ user_id # None => tk.listener # "no_user_id"
    /\ status # "All" => tk.accessor # "absent"

\* The task is one the call polls: a candidate of this viewer.
IsCandidate(tk, user_id) ==
    /\ tk.listener # "absent"
    /\ user_id # None => tk.listener = user_id

CollectDone == call.fn = "get_specific_tasks" /\ ret.done

\* C4 - aggregation exactness: a call with a specific filter that returns,
\* returns exactly the candidates whose status resolved and matches the
\* filter, each once and in registry order, whatever the mix of synchronous
\* and asynchronous accessors; and it returns whenever every registry entry
\* has the fields the call reads.
C4_AggregationExact ==
    (CollectDone /\ call.status # "All") =>
        LET expected == SelectSeq(task_dict, LAMBDA tk :
                            /\ IsCandidate(tk, call.user_id)
                            /\ tk.st # "raise"
                            /\ \/ tk.st = call.status
                               \/ call.status = "Download" /\ tk.st \notin STATUSES_values)
        IN  /\ ret.raised = "no" => ret.result = expected
            /\ (\A i \in 1..Len(task_dict) :
                    HasRequiredFields(task_dict[i], call.user_id, call.status))
                => ret.raised = "no"

\* Three candidates, synchronous and asynchronous, of which exactly two match.
C4_Witness ==
    /\ CollectDone /\ call.status = "Seed" /\ ret.raised = "no"
    /\ Len(task_dict) = 3
    /\ \A i \in 1..3 : IsCandidate(task_dict[i], call.user_id) /\ task_dict[i].accessor # "absent"
    /\ task_dict[1].accessor = "async" /\ task_dict[1].st = "Download"
    /\ task_dict[2].accessor = "sync" /\ task_dict[2].st = "Seed"
    /\ task_dict[3].accessor = "async" /\ task_dict[3].st = "Seed"
    /\ ret.result = <<task_dict[2], task_dict[3]>>

\* The status accessor of task i fails when the call polls it.
StatusFaults(tk, user_id) ==
    IsCandidate(tk, user_id) /\ tk.accessor \in {"sync", "async"} /\ tk.st = "raise"

\* C5 - status-fault isolation: for every candidate whose status accessor
\* fails, a call with a specific filter ends exactly as the call on the
\* registry without that task ends (the same result, and it completes
\* whenever that call completes), and the faulting task is not in the result.
C5_StatusFaultIsolated ==
    (CollectDone /\ call.status # "All") =>
        \A i \in 1..Len(task_dict) :
            StatusFaults(task_dict[i], call.user_id) =>
                LET without == get_specific_tasks(RemoveAt(task_dict, i), call.status, call.user_id)
                IN  /\ ret.raised = without.raised
                    /\ ret.result = without.result
                    /\ task_dict[i] \notin Range(ret.result)
                    /\ (\A j \in 1..Len(task_dict) :
                            HasRequiredFields(task_dict[j], call.user_id, call.status))
                       => ret.raised = "no"

\* A failing asynchronous accessor before a matching asynchronous task, and a
\* failing synchronous accessor; the call completes and returns the match.
C5_Witness ==
    /\ CollectDone /\ call.status = "Download" /\ ret.raised = "no"
    /\ Len(task_dict) = 3
    /\ StatusFaults(task_dict[1], call.user_id) /\ task_dict[1].accessor = "async"
    /\ task_dict[2].accessor = "async" /\ task_dict[2].st = "Download"
    /\ StatusFaults(task_dict[3], call.user_id) /\ task_dict[3].accessor = "sync"
    /\ ret.result = <<task_dict[2]>>

\* C6 - missing-attribute isolation: a task that lacks a required field never
\* makes the call fail, and the call returns what it returns for the registry
\* without the tasks that lack a field.
C6_MissingAttributeIsolated ==
    CollectDone =>
        LET complete == SelectSeq(task_dict, LAMBDA tk :
                            HasRequiredFields(tk, call.user_id, call.status))
        IN  /\ ret.raised = "no"
            /\ ret.result = get_specific_tasks(complete, call.status, call.user_id).result


-----------------------------------------------------------------------------
(* get_readable_message (lines 247-379).                                   *)
(* The message is the sequence of the pieces appended to msg, each         *)
(* [slot, piece]: slot 0 for the pieces that belong to no task, otherwise  *)
(* the number shown for the task (index + start_position).                 *)

Piece(slot, piece) == [slot |-> slot, piece |-> piece]

STATUS_LIMIT_FALLBACK == 10

\* Line 261: Config.STATUS_LIMIT or 10.
STATUS_LIMIT_of(cfg) == IF cfg = 0 THEN STATUS_LIMIT_FALLBACK ELSE cfg

\* Line 263.
pages_of_floor(tasks_no, limit) == (tasks_no \div limit) + 1
pages_of(tasks_no, limit) == Max((tasks_no + limit - 1) \div limit, 1)

Abs(n) == IF n < 0 THEN -n ELSE n

\* Lines 266-269: the page is wrapped into 1..pages.
NormalizePageClamped(page_no, pages) ==
    IF page_no > pages THEN pages
    ELSE IF page_no < 1 THEN 1
    ELSE page_no
NormalizePage(page_no, pages) ==
    IF page_no > pages THEN ((page_no - 1) % pages) + 1
    ELSE IF page_no < 1 THEN pages - (Abs(page_no) % pages)
    ELSE page_no

\* Line 275: tasks[start_position : start_position + STATUS_LIMIT].
PageSlice(tasks, start_position, limit) ==
    SubSeq(tasks, start_position + 1, Min(start_position + limit, Len(tasks)))

\* Lines 277-282: the status shown for the task; with filter "All" the
\* accessor is called, and the call (or reading task.status) may raise.
tstatus_raises(task, status) ==
    status = "All" /\ (task.accessor = "absent" \/ task.st = "raise")
tstatus_of(task, status) == IF status # "All" THEN status ELSE task.st

\* Lines 293-340: which body the block gets.
BodyBranch(task, tstatus) ==
    IF tstatus \notin {STATUS_SEED, STATUS_QUEUEUP} /\ task.progress THEN "progress"
    ELSE IF tstatus = STATUS_SEED THEN "seed"
    ELSE "size"

\* The steps of one block in source order: the piece the step appends ("-"
\* for none) and the accessor whose failure raises inside the step ("-" when
\* the model lets none fail there).
BlockSteps(branch) ==
    <<  <<"name", "name">>,                \* lines 284-287: task.name()
        <<"-", "message">>,                \* line 289: elapsed, task.listener.message
        <<"task_by", "-">> >>              \* line 291
    \o
    (CASE branch = "progress" ->
            << <<"bar", "-">>,             \* line 302 (progress() has its own try)
               <<"status", "speed">>,      \* lines 314/316: task.speed()
               <<"done", "-">>,            \* line 318
               <<"total", "size">>,        \* line 319: task.size()
               <<"eta", "-">>,             \* line 322
               <<"past", "-">> >>          \* line 323
       [] branch = "seed" ->
            << <<"status", "speed">>,      \* line 333: task.seed_speed()
               <<"done", "-">>,            \* line 334
               <<"total", "size">>,        \* line 335: task.size()
               <<"ratio", "-">>,           \* line 336
               <<"eta", "-">>,             \* line 337
               <<"past", "-">> >>          \* line 338
       [] OTHER ->
            << <<"size", "size">> >>)      \* line 340: task.size()
    \o
    <<  <<"engine", "-">>,                 \* line 342
        <<"mode", "-">>,                   \* line 343
        <<"stop", "gid">> >>               \* line 344: task.gid()

\* Line 289: the default handed to getattr is
\*   type('obj', (object,), {'timestamp': lambda: time()}())
\* whose third argument calls a dict.  Arguments are evaluated before the
\* call, so the statement raises TypeError for every task.
elapsed_default_raises(task) == TRUE

StepRaises(step, task) ==
    \/ step[2] # "-" /\ step[2] = task.fault
    \/ step[2] = "message" /\ elapsed_default_raises(task)

\* The first step that raises; Len(steps) + 1 if none does.
RECURSIVE FirstRaising(_, _, _)
FirstRaising(steps, i, task) ==
    IF i > Len(steps) \/ StepRaises(steps[i], task) THEN i
    ELSE FirstRaising(steps, i + 1, task)

\* The pieces appended by the steps before position k.
RECURSIVE AppendedBefore(_, _, _, _)
AppendedBefore(steps, i, k, slot) ==
    IF i >= k THEN <<>>
    ELSE (IF steps[i][1] = "-" THEN <<>> ELSE <<Piece(slot, steps[i][1])>>)
         \o AppendedBefore(steps, i + 1, k, slot)

BlockRaises(task, status) ==
    \/ tstatus_raises(task, status)
    \/ LET steps == BlockSteps(BodyBranch(task, tstatus_of(task, status)))
       IN  FirstRaising(steps, 1, task) <= Len(steps)

\* Lines 276-348: what one iteration of the loop appends to msg.
RenderBlock(task, slot, status) ==
    IF tstatus_raises(task, status)
    THEN <<Piece(slot, "error")>>
    ELSE LET steps == BlockSteps(BodyBranch(task, tstatus_of(task, status)))
             k == FirstRaising(steps, 1, task)
             written == AppendedBefore(steps, 1, k, slot)
         IN  IF k <= Len(steps)
             THEN written \o <<Piece(slot, "error")>>     \* lines 345-348
             ELSE written

\* Lines 275-348: the loop over the slice; index counts from 1.
RECURSIVE RenderSlice(_, _, _, _)
RenderSlice(slice, index, start_position, status) ==
    IF index > Len(slice) THEN <<>>
    ELSE RenderBlock(slice[index], index + start_position, status)
         \o RenderSlice(slice, index + 1, start_position, status)

\* Line 350: not msg.strip().  No piece is blank text.
msg_strip_empty(msg) == Len(msg) = 0

\* Lines 356-374: the controls, as the callback data of the buttons.
Buttons(is_user, tasks_no, limit, status) ==
    (IF ~is_user THEN <<"ov">> ELSE <<>>)
    \o (IF tasks_no > limit THEN <<"pre", "nex">> ELSE <<>>)
    \o (IF tasks_no > limit /\ tasks_no > 30 THEN <<"ps">> ELSE <<>>)
    \o (IF status # "All" \/ tasks_no > 20 THEN <<"st">> ELSE <<>>)
    \o <<"ref">>

\* (None, None); page_no records the page the call used.
NoneNone(page_no) == [none |-> TRUE, msg |-> <<>>, button |-> <<>>, page_no |-> page_no]

\* Lines 256-257: the viewer's entry is created on first view.
EnsureEntry(sd, sid) ==
    IF sid \in DOMAIN sd THEN sd
    ELSE [v \in DOMAIN sd \cup {sid} |-> IF v = sid THEN [page_no |-> 1] ELSE sd[v]]

\* Line 271.
StorePageAll(sd, sid, page_no) == [v \in DOMAIN sd |-> [page_no |-> page_no]]
StorePage(sd, sid, page_no) == [sd EXCEPT ![sid] = [page_no |-> page_no]]

\* Lines 350-379: the returned pair, from the text written by the loop.
FinishMessage(body, tasks_no, limit, page, is_user, status) ==
    IF msg_strip_empty(body) /\ status = "All"
    THEN NoneNone(page)                                                \* line 352
    ELSE [none |-> FALSE,
          msg |-> (IF msg_strip_empty(body) THEN <<Piece(0, "no_active")>> ELSE body)
                  \o (IF tasks_no > limit THEN <<Piece(0, "page")>> ELSE <<>>)
                  \o <<Piece(0, "footer")>>,
          button |-> Buttons(is_user, tasks_no, limit, status),
          page_no |-> page]

\* Line 253: the header is written before anything else.
Header == <<Piece(0, "header")>>

\* Lines 261-379, from the collected list on: the returned pair and the page
\* that was used.
RenderCollected(tasks, cfg, sid, is_user, page_no, status) ==
    LET limit == STATUS_LIMIT_of(cfg)
        tasks_no == Len(tasks)
        pages == pages_of(tasks_no, limit)
        page == NormalizePage(page_no, pages)
        start_position == (page - 1) * limit
        body == Header \o RenderSlice(PageSlice(tasks, start_position, limit), 1,
                                      start_position, status)
    IN  FinishMessage(body, tasks_no, limit, page, is_user, status)

\* The whole call: [raised, result, sd], sd being status_dict after the call.
get_readable_message(reg, sd, cfg, sid, is_user, page_no, status) ==
    LET sd1 == EnsureEntry(sd, sid)
        collected == get_specific_tasks(reg, status, IF is_user THEN sid ELSE None)
    IN  IF collected.raised # "no"
        THEN [raised |-> collected.raised, result |-> NoneNone(0), sd |-> sd1]
        ELSE LET r == RenderCollected(collected.result, cfg, sid, is_user, page_no, status)
             IN  [raised |-> "no", result |-> r, sd |-> StorePage(sd1, sid, r.page_no)]


-----------------------------------------------------------------------------
(* Sequential runs of the renderer: one call of get_readable_message.      *)

\* Tasks of u1 as the renderer meets them: every body branch with every
\* step that can raise, a failing status accessor, asynchronous accessors
\* and a task without a status accessor.
RenderShapes ==
    {Task(0, 0, "u1", "sync", "Download", f, pr, FALSE, "ok") :
        f \in {"none", "name", "message", "speed", "size", "gid"}, pr \in BOOLEAN}
    \cup
    {Task(0, 0, "u1", "sync", "Seed", f, TRUE, FALSE, "ok") :
        f \in {"none", "name", "message", "speed", "size", "gid"}}
    \cup
    {Task(0, 0, "u1", "sync", "raise", "none", TRUE, FALSE, "ok"),
     Task(0, 0, "u1", "async", "Download", "none", TRUE, FALSE, "ok"),
     Task(0, 0, "u1", "async", "raise", "none", TRUE, FALSE, "ok"),
     Task(0, 0, "u1", "absent", "raise", "none", TRUE, FALSE, "ok")}

RenderCall(sid, is_user, page_no, status) ==
    [fn |-> "get_readable_message", sid |-> sid, is_user |-> is_user,
     page_no |-> page_no, status |-> status]

\* Another viewer has viewed before; the caller has not.
OtherViewerOnly == [v \in {"u2"} |-> [page_no |-> 2]]

InitRender ==
    /\ task_dict \in {WithOids(s) : s \in SeqsUpTo(RenderShapes, MaxRenderReg)}
    /\ call \in {RenderCall("u1", u, p, f) :
                    u \in BOOLEAN, p \in 1..2, f \in {"All", "Download", "Seed"}}
    /\ STATUS_LIMIT_CFG \in 0..1
    /\ status_dict = OtherViewerOnly
    /\ ret = NotDone
    /\ task_dict_lock = {}
    /\ next_oid = Len(task_dict) + 1
    /\ pc = NoCoroutines
    /\ frame = NoCoroutines

PlainTask == Task(0, 0, "u1", "sync", "Download", "none", TRUE, FALSE, "ok")

InitPage ==
    /\ task_dict \in {WithOids([i \in 1..n |-> PlainTask]) : n \in 0..MaxPageTasks}
    /\ call \in {RenderCall("u1", FALSE, p, f) :
                    p \in (-MaxPage)..MaxPage, f \in {"All", "Download"}}
    /\ STATUS_LIMIT_CFG \in 0..MaxLimit
    /\ status_dict = OtherViewerOnly
    /\ ret = NotDone
    /\ task_dict_lock = {}
    /\ next_oid = Len(task_dict) + 1
    /\ pc = NoCoroutines
    /\ frame = NoCoroutines

CallRender ==
    /\ call.fn = "get_readable_message"
    /\ ~ret.done
    /\ LET out == get_readable_message(task_dict, status_dict, STATUS_LIMIT_CFG, call.sid,
                                       call.is_user, call.page_no, call.status)
       IN  /\ ret' = Done(out)
           /\ status_dict' = out.sd
    /\ UNCHANGED <<task_dict, task_dict_lock, next_oid, STATUS_LIMIT_CFG, pc, frame, call>>

SpecRender == InitRender /\ [][CallRender]_vars
SpecPage == InitPage /\ [][CallRender]_vars

-----------------------------------------------------------------------------
(* Claims about the renderer.                                              *)

RenderDone == call.fn = "get_readable_message" /\ ret.done

\* The list the call collected.
Collected == get_specific_tasks(task_dict, call.status, IF call.is_user THEN call.sid ELSE None)

\* C1 - empty-state outcome: when the filtered list is empty, a call with
\* filter "All" returns (None, None), and a call with a specific filter
\* returns a text holding the "No Active <filter> Tasks" notice.
C1_EmptyState ==
    (RenderDone /\ ret.raised = "no" /\ Collected.result = <<>>) =>
        IF call.status = "All"
        THEN ret.result.none
        ELSE ~ret.result.none /\ Piece(0, "no_active") \in Range(ret.result.msg)

\* The pieces written for a slot.
SlotPieces(msg, slot) == SelectSeq(msg, LAMBDA p : p.slot = slot)

\* The tasks of the page the call rendered, with their slot numbers.
RenderedSlots ==
    LET limit == STATUS_LIMIT_of(STATUS_LIMIT_CFG)
        n == Len(Collected.result)
        first == (ret.result.page_no - 1) * limit + 1
    IN  first..Min(first + limit - 1, n)

\* C7 - render fault isolation: the call does not fail; a task of the slice
\* whose rendering raises leaves only the "Error loading task" line in its
\* slot, and every other task of the slice has its whole block.
C7_RenderFaultIsolated ==
    (RenderDone /\ Collected.raised = "no") =>
        /\ ret.raised = "no"
        /\ \A slot \in RenderedSlots :
              LET task == Collected.result[slot]
                  pieces == SlotPieces(ret.result.msg, slot)
              IN  IF BlockRaises(task, call.status)
                  THEN pieces = <<Piece(slot, "error")>>
                  ELSE /\ Len(pieces) >= 1
                       /\ pieces[1].piece = "name"
                       /\ pieces[Len(pieces)].piece = "stop"
                       /\ Piece(slot, "error") \notin Range(pieces)

\* C8 - page normalization: the page used for slicing and stored for the
\* viewer lies in 1..pages and is congruent to the requested page modulo
\* pages; a requested page in range is kept.
C8_PageNormalized ==
    (RenderDone /\ ret.raised = "no") =>
        LET limit == STATUS_LIMIT_of(STATUS_LIMIT_CFG)
            n == Len(Collected.result)
            pages == pages_of(n, limit)
            p == ret.result.page_no
            shown == {q.slot : q \in Range(ret.result.msg)} \ {0}
        IN  /\ p \in 1..pages
            /\ (p - call.page_no) % pages = 0
            /\ call.page_no \in 1..pages => p = call.page_no
            /\ status_dict[call.sid].page_no = p
            /\ shown = ((p - 1) * limit + 1)..Min(p * limit, n)

\* Three pages, page -1 requested: page 2 is used and stored.
C8_Witness ==
    /\ RenderDone /\ ret.raised = "no"
    /\ Len(Collected.result) = 3 /\ STATUS_LIMIT_CFG = 1
    /\ call.page_no = -1
    /\ ret.result.page_no = 2
    /\ status_dict[call.sid].page_no = 2


-----------------------------------------------------------------------------
(* Texts and numbers of the unit formatters.  A text is a sequence of      *)
(* one-character strings; a float is the exact number                      *)
(* (num / den) * 1024^exp, kept as [num, den, exp].                        *)

DigitChars == <<"0", "1", "2", "3", "4", "5", "6", "7", "8", "9">>
IsDigit(c) == \E d \in 1..10 : DigitChars[d] = c
DigitValue(c) == (CHOOSE d \in 1..10 : DigitChars[d] = c) - 1

\* f"{int(value)}": the decimal digits of a natural number.
RECURSIVE Digits(_)
Digits(n) == IF n < 10 THEN <<DigitChars[n + 1]>> ELSE Digits(n \div 10) \o <<DigitChars[(n % 10) + 1]>>

RECURSIVE Pow(_, _)
Pow(b, e) == IF e = 0 THEN 1 ELSE b * Pow(b, e - 1)

Rat(num, den) == [num |-> num, den |-> den, exp |-> 0]
\* Sum and integer multiple of numbers with exp = 0.
RatAdd(a, b) == Rat(a.num * b.den + b.num * a.den, a.den * b.den)
RatScale(a, k) == Rat(a.num * k, a.den)
\* x * 1024^e.
RatTimes1024(a, e) == [a EXCEPT !.exp = a.exp + e]
\* int(x) of a non-negative float with exp = 0.
RatFloor(a) == a.num \div a.den

-----------------------------------------------------------------------------
(* get_readable_time (lines 154-164).                                      *)

periods == << <<"d", 86400>>, <<"h", 3600>>, <<"m", 60>>, <<"s", 1>> >>

\* Line 161: seconds >= period_seconds.
PeriodAppliesStrict(seconds, period_seconds) == seconds > period_seconds
PeriodApplies(seconds, period_seconds) == seconds >= period_seconds

\* Lines 160-163: the loop over periods, from position i on.
RECURSIVE ReadableTimeLoop(_, _, _)
ReadableTimeLoop(i, seconds, result) ==
    IF i > Len(periods) THEN result
    ELSE LET period_name == periods[i][1]
             period_seconds == periods[i][2]
         IN  IF PeriodApplies(seconds, period_seconds)
             THEN ReadableTimeLoop(i + 1, seconds % period_seconds,
                                   result \o Digits(seconds \div period_seconds) \o <<period_name>>)
             ELSE ReadableTimeLoop(i + 1, seconds, result)

get_readable_time(seconds) ==
    IF seconds <= 0 THEN <<"0", "s">>
    ELSE LET result == ReadableTimeLoop(1, seconds, <<>>)
         IN  IF result = <<>> THEN <<"0", "s">> ELSE result

\* The durations formatted: every value up to MaxSeconds, and whole days
\* plus a remainder around each unit boundary.
DayRemainders == {0, 1, 59, 60, 61, 3599, 3600, 3601, 3660, 3661, 86399}
SecondsInputs ==
    (-2..MaxSeconds) \cup {d * 86400 + r : d \in 1..MaxDays, r \in DayRemainders}

InitTime ==
    /\ call \in {[fn |-> "get_readable_time", seconds |-> n] : n \in SecondsInputs}
    /\ ret = NotDone
    /\ task_dict = <<>>
    /\ task_dict_lock = {}
    /\ next_oid = Len(task_dict) + 1
    /\ status_dict = <<>>
    /\ STATUS_LIMIT_CFG = 0
    /\ pc = NoCoroutines
    /\ frame = NoCoroutines

CallReadableTime ==
    /\ call.fn = "get_readable_time"
    /\ ~ret.done
    /\ ret' = Done(Returned(get_readable_time(call.seconds)))
    /\ UNCHANGED <<task_dict, task_dict_lock, next_oid, status_dict, STATUS_LIMIT_CFG, pc, frame, call>>

SpecTime == InitTime /\ [][CallReadableTime]_vars

TimeDone == call.fn = "get_readable_time" /\ ret.done

UnitLetters == <<"d", "h", "m", "s">>
LettersOf(text) == SelectSeq(text, LAMBDA c : c \in Range(UnitLetters))

\* The value of each unit in the greedy breakdown of n seconds.
UnitValue(n, k) ==
    CASE k = 1 -> n \div 86400
      [] k = 2 -> (n % 86400) \div 3600
      [] k = 3 -> (n % 3600) \div 60
      [] k = 4 -> n % 60

\* C9 as stated - zero-valued smaller units are still emitted: for positive
\* seconds the units of the text are all the units from the largest
\* non-zero one down to seconds; seconds <= 0 gives "0s".
C9_SmallerUnitsEmitted ==
    TimeDone =>
        IF call.seconds <= 0 THEN ret.result = <<"0", "s">>
        ELSE LET first == CHOOSE k \in 1..4 :
                              UnitValue(call.seconds, k) > 0
                              /\ \A j \in 1..(k - 1) : UnitValue(call.seconds, j) = 0
             IN  LettersOf(ret.result) = SubSeq(UnitLetters, first, 4)

RECURSIVE NonZeroUnits(_, _)
NonZeroUnits(n, k) ==
    IF k > 4 THEN <<>>
    ELSE (IF UnitValue(n, k) > 0 THEN Digits(UnitValue(n, k)) \o <<UnitLetters[k]>> ELSE <<>>)
         \o NonZeroUnits(n, k + 1)

\* C9 as amended - a unit is emitted exactly when its own value is non-zero:
\* for positive seconds the text is the values of the non-zero units of the
\* breakdown into days, hours, minutes and seconds, largest first, each
\* followed by its letter (90000 -> "1d1h", 90061 -> "1d1h1m1s");
\* seconds <= 0 gives "0s".
C9_NonZeroUnitsOnly ==
    TimeDone =>
        IF call.seconds <= 0 THEN ret.result = <<"0", "s">>
        ELSE ret.result = NonZeroUnits(call.seconds, 1)

\* 90000 seconds: a day and an hour, no minutes and no seconds in the text.
C9_Witness ==
    /\ TimeDone
    /\ call.seconds = 90000
    /\ ret.result = <<"1", "d", "1", "h">>


-----------------------------------------------------------------------------
(* String methods the parsers use.                                         *)

IsSpace(c) == c = " "

\* str.lower() and str.upper() on the letters of the texts.
lower_char(c) == CASE c = "K" -> "k" [] c = "B" -> "b" [] OTHER -> c
upper_char(c) == CASE c = "k" -> "K" [] c = "b" -> "B" [] OTHER -> c
lower(text) == [i \in 1..Len(text) |-> lower_char(text[i])]
upper(text) == [i \in 1..Len(text) |-> upper_char(text[i])]

RECURSIVE lstrip(_)
lstrip(text) == IF Len(text) > 0 /\ IsSpace(text[1]) THEN lstrip(Tail(text)) ELSE text
RECURSIVE rstrip(_)
rstrip(text) ==
    IF Len(text) > 0 /\ IsSpace(text[Len(text)]) THEN rstrip(SubSeq(text, 1, Len(text) - 1)) ELSE text
strip(text) == rstrip(lstrip(text))

contains(text, c) == \E i \in 1..Len(text) : text[i] = c

\* text.split(sep): the pieces between the occurrences of sep.
RECURSIVE split_at(_, _, _, _)
split_at(text, sep, i, piece) ==
    IF i > Len(text) THEN <<piece>>
    ELSE IF text[i] = sep THEN <<piece>> \o split_at(text, sep, i + 1, <<>>)
    ELSE split_at(text, sep, i + 1, Append(piece, text[i]))
split(text, sep) == split_at(text, sep, 1, <<>>)

\* text.split(): the runs of non-blank characters.
split_blank(text) == SelectSeq(split(text, " "), LAMBDA piece : Len(piece) > 0)

\* float(text) raises ValueError unless the stripped text is digits with at
\* most one point and at least one digit.
float_ok(text) ==
    LET t == strip(text) IN
    /\ Len(t) > 0
    /\ \A i \in 1..Len(t) : IsDigit(t[i]) \/ t[i] = "."
    /\ Cardinality({i \in 1..Len(t) : t[i] = "."}) <= 1
    /\ \E i \in 1..Len(t) : IsDigit(t[i])

RECURSIVE DigitsValue(_, _)
DigitsValue(ds, acc) ==
    IF Len(ds) = 0 THEN acc ELSE DigitsValue(Tail(ds), acc * 10 + DigitValue(ds[1]))

float(text) ==
    LET t == strip(text)
        ds == SelectSeq(t, IsDigit)
        point == {i \in 1..Len(t) : t[i] = "."}
        decimals == IF point = {} THEN 0 ELSE Len(t) - (CHOOSE i \in point : TRUE)
    IN  Rat(DigitsValue(ds, 0), Pow(10, decimals))

Zero == Rat(0, 1)

-----------------------------------------------------------------------------
(* speed_string_to_bytes (lines 194-210).                                  *)

\* Lines 200-209: the unit letters in the order they are tested, each with
\* its factor as a power of 1024: 1024, 1048576, 1073741824, 1099511627776
\* and 1.
RateUnits == << <<"k", 1>>, <<"m", 2>>, <<"g", 3>>, <<"t", 4>>, <<"b", 0>> >>

\* Lines 201-209: float(size_text.split(letter)[0]) * factor, for the first
\* letter of RateUnits the text holds; no try encloses the conversion.
RECURSIVE RateBranches(_, _)
RateBranches(size_text, i) ==
    IF i > Len(RateUnits) THEN Returned(Zero)
    ELSE IF contains(size_text, RateUnits[i][1])
         THEN LET prefix == split(size_text, RateUnits[i][1])[1]
              IN  IF float_ok(prefix)
                  THEN Returned(RatTimes1024(float(prefix), RateUnits[i][2]))
                  ELSE Raised("ValueError")
         ELSE RateBranches(size_text, i + 1)

speed_string_to_bytes(text) ==
    LET size_text == strip(lower(text))
    IN  IF Len(size_text) = 0 THEN Returned(Zero)
        ELSE RateBranches(size_text, 1)

-----------------------------------------------------------------------------
(* get_raw_file_size (lines 134-139).                                      *)

SIZE_UNITS == << <<"B">>, <<"K", "B">>, <<"M", "B">>, <<"G", "B">>, <<"T", "B">>, <<"P", "B">> >>

\* SIZE_UNITS.index(unit) is 0-based; ValueError when the unit is not listed.
get_raw_file_size(size) ==
    LET parts == split_blank(size)
    IN  IF Len(parts) # 2 THEN Returned(Zero)                     \* unpacking: ValueError, caught
        ELSE LET num == parts[1]
                 unit == upper(parts[2])
             IN  IF ~float_ok(num) THEN Returned(Zero)            \* float(): ValueError, caught
                 ELSE IF \A k \in 1..Len(SIZE_UNITS) : SIZE_UNITS[k] # unit
                      THEN Returned(Zero)                         \* index(): ValueError, caught
                      ELSE LET index == (CHOOSE k \in 1..Len(SIZE_UNITS) : SIZE_UNITS[k] = unit) - 1
                           IN  Returned(Rat(RatFloor(RatScale(float(num), Pow(1024, index))), 1))

-----------------------------------------------------------------------------
(* time_to_seconds (lines 175-191).                                        *)

time_to_seconds(time_duration) ==
    LET parts == split(time_duration, ":")
        n == Len(parts)
    IN  IF n > 3 THEN Returned(Zero)                                      \* line 188
        ELSE IF \E i \in 1..n : ~float_ok(parts[i]) THEN Returned(Zero)   \* except Exception
        ELSE LET hours == IF n = 3 THEN float(parts[1]) ELSE Zero
                 minutes == IF n >= 2 THEN float(parts[n - 1]) ELSE Zero
                 seconds == float(parts[n])
             IN  Returned(RatAdd(RatAdd(RatScale(hours, 3600), RatScale(minutes, 60)), seconds))

-----------------------------------------------------------------------------
(* Sequential runs of the parsers on every text of up to MaxLen characters *)
(* over ParseAlphabet.                                                     *)

ParseAlphabet == {"1", ".", "k", "K", "b", " ", ":"}
ParseTexts == SeqsUpTo(ParseAlphabet, MaxLen)
ParseFns == {"speed_string_to_bytes", "get_raw_file_size", "time_to_seconds"}

InitParse ==
    /\ call \in {[fn |-> f, text |-> t] : f \in ParseFns, t \in ParseTexts}
    /\ ret = NotDone
    /\ task_dict = <<>>
    /\ task_dict_lock = {}
    /\ next_oid = Len(task_dict) + 1
    /\ status_dict = <<>>
    /\ STATUS_LIMIT_CFG = 0
    /\ pc = NoCoroutines
    /\ frame = NoCoroutines

CallSpeedStringToBytes ==
    /\ call.fn = "speed_string_to_bytes"
    /\ ~ret.done
    /\ ret' = Done(speed_string_to_bytes(call.text))
    /\ UNCHANGED <<task_dict, task_dict_lock, next_oid, status_dict, STATUS_LIMIT_CFG, pc, frame, call>>

CallGetRawFileSize ==
    /\ call.fn = "get_raw_file_size"
    /\ ~ret.done
    /\ ret' = Done(get_raw_file_size(call.text))
    /\ UNCHANGED <<task_dict, task_dict_lock, next_oid, status_dict, STATUS_LIMIT_CFG, pc, frame, call>>

CallTimeToSeconds ==
    /\ call.fn = "time_to_seconds"
    /\ ~ret.done
    /\ ret' = Done(time_to_seconds(call.text))
    /\ UNCHANGED <<task_dict, task_dict_lock, next_oid, status_dict, STATUS_LIMIT_CFG, pc, frame, call>>

NextParse == CallSpeedStringToBytes \/ CallGetRawFileSize \/ CallTimeToSeconds

SpecParse == InitParse /\ [][NextParse]_vars

ParseDone == call.fn \in ParseFns /\ ret.done

\* C10 - parse faults never propagate: on every text each of the three
\* parsers returns a number and raises nothing.
C10_ParseNeverRaises == ParseDone => ret.raised = "no"


-----------------------------------------------------------------------------
(* Concurrent runs.  Coroutines of one event loop call get_all_tasks,      *)
(* get_task_by_gid and get_readable_message while tasks are admitted to    *)
(* and removed from the registry.  A coroutine runs without interruption   *)
(* from one suspension point to the next; an action is one such stretch.   *)
(* The suspension points are: waiting for task_dict_lock, the gather of    *)
(* line 103, tk.update() of line 81 and task.status() of line 280.         *)

MaxTasks == 2        \* tasks in the registry at one time
MaxAdmissions == 3   \* task objects admitted in one run

\* Two coroutines call into the module, each once.
Coroutines == {1, 2}
Gids == {"g1", "g2"}

\* The task objects admitted in the concurrent runs: a plain download, a
\* seeding torrent, and a seeding torrent whose status() and update() raise.
AdmittedShapes ==
    {Task(0, 0, "u1", "sync", "Download", "none", TRUE, FALSE, "ok"),
     Task(0, 0, "u1", "async", "Seed", "none", TRUE, TRUE, "ok"),
     Task(0, 0, "u1", "async", "raise", "none", TRUE, TRUE, "raise")}

ConcurrentFilters == {"All", "Seed"}
ConcurrentPages == 1..2
ConcurrentLimit == 1

IdleFrame ==
    [fn |-> "none", status |-> "All", user_id |-> None, sid |-> "u1", is_user |-> FALSE,
     page_no |-> 1, gid |-> "g1", tasks |-> <<>>, i |-> 0, start_position |-> 0,
     page |-> 0, msg |-> <<>>, out |-> NotDone]

Init ==
    /\ task_dict = <<>>
    /\ task_dict_lock = {}
    /\ next_oid = 1
    /\ status_dict = <<>>
    /\ STATUS_LIMIT_CFG = ConcurrentLimit
    /\ pc = [p \in Coroutines |-> "idle"]
    /\ frame = [p \in Coroutines |-> IdleFrame]
    /\ call = NoCall
    /\ ret = NotDone

\* The coroutine p ends its call with outcome o; of its frame the arguments
\* and the outcome are kept.  A coroutine makes one call.
Finish(p, fr, o) ==
    /\ pc' = [pc EXCEPT ![p] = "done"]
    /\ frame' = [frame EXCEPT ![p] =
                    [IdleFrame EXCEPT !.fn = fr.fn, !.status = fr.status, !.user_id = fr.user_id,
                                      !.sid = fr.sid, !.is_user = fr.is_user,
                                      !.page_no = fr.page_no, !.gid = fr.gid, !.out = Done(o)]]

(* Task admission and removal: the callers elsewhere in the bot, which     *)
(* change task_dict inside "async with task_dict_lock" without awaiting.   *)

AdmitTask(shape, gid) ==
    /\ task_dict_lock = {}
    /\ Len(task_dict) < MaxTasks
    /\ next_oid <= MaxAdmissions
    /\ \A i \in 1..Len(task_dict) : task_dict[i].gid # gid
    /\ task_dict' = Append(task_dict, [shape EXCEPT !.oid = next_oid, !.gid = gid])
    /\ next_oid' = next_oid + 1
    /\ UNCHANGED <<task_dict_lock, status_dict, STATUS_LIMIT_CFG, pc, frame, call, ret>>

RemoveTask(i) ==
    /\ task_dict_lock = {}
    /\ i \in 1..Len(task_dict)
    /\ task_dict' = [j \in 1..(Len(task_dict) - 1) |-> IF j < i THEN task_dict[j] ELSE task_dict[j + 1]]
    /\ UNCHANGED <<task_dict_lock, next_oid, status_dict, STATUS_LIMIT_CFG, pc, frame, call, ret>>

(* get_all_tasks (lines 129-131).                                          *)

\* The call starts and waits for the lock.
GetAllTasksCall(p, status, user_id) ==
    /\ pc[p] = "idle"
    /\ pc' = [pc EXCEPT ![p] = "gat_lock"]
    /\ frame' = [frame EXCEPT ![p] = [IdleFrame EXCEPT !.fn = "get_all_tasks",
                                                      !.status = status, !.user_id = user_id]]
    /\ UNCHANGED <<task_dict, task_dict_lock, next_oid, status_dict, STATUS_LIMIT_CFG, call, ret>>

\* Line 130 takes the lock, line 131 runs get_specific_tasks up to the gather
\* of line 103.  The call ends here, the lock released, when the list
\* comprehension raises, the filter is "All" or no candidate has an
\* asynchronous accessor (gather of nothing does not suspend); otherwise the
\* coroutine is suspended in the gather, holding the lock.
GetAllTasksAcquire(p) ==
    /\ pc[p] = "gat_lock"
    /\ task_dict_lock = {}
    /\ LET fr == frame[p]
           tasks_to_check == SelectCandidates(task_dict, fr.user_id)
           suspends == /\ ~CandidatesRaise(task_dict, fr.user_id)
                       /\ fr.status # "All"
                       /\ \A i \in 1..Len(tasks_to_check) : ~status_attr_raises(tasks_to_check[i])
                       /\ coro_tasks_of(tasks_to_check) # <<>>
       IN  IF suspends
           THEN /\ task_dict_lock' = {p}
                /\ pc' = [pc EXCEPT ![p] = "gat_gather"]
                /\ frame' = [frame EXCEPT ![p] = [fr EXCEPT !.tasks = tasks_to_check]]
           ELSE /\ task_dict_lock' = {}
                /\ Finish(p, fr, get_specific_tasks(task_dict, fr.status, fr.user_id))
    /\ UNCHANGED <<task_dict, next_oid, status_dict, STATUS_LIMIT_CFG, call, ret>>

\* A gather after which the lock stays taken when a status raised.
GetAllTasksGatheredHolding(p) ==
    /\ pc[p] = "gat_gather"
    /\ LET fr == frame[p]
           coro_tasks == coro_tasks_of(fr.tasks)
       IN  /\ Finish(p, fr, Returned(FilterLoop(fr.tasks, coro_tasks, gather_statuses(coro_tasks),
                                                fr.status, 1, 0, <<>>)))
           /\ task_dict_lock' = IF \E i \in 1..Len(coro_tasks) : coro_tasks[i].st = "raise"
                                 THEN {p} ELSE {}
    /\ UNCHANGED <<task_dict, next_oid, status_dict, STATUS_LIMIT_CFG, call, ret>>

\* The gather is complete: lines 105-126 run, the call returns and the lock
\* is released.
GetAllTasksGathered(p) ==
    /\ pc[p] = "gat_gather"
    /\ LET fr == frame[p]
           coro_tasks == coro_tasks_of(fr.tasks)
       IN  Finish(p, fr, Returned(FilterLoop(fr.tasks, coro_tasks, gather_statuses(coro_tasks),
                                             fr.status, 1, 0, <<>>)))
    /\ task_dict_lock' = {}
    /\ UNCHANGED <<task_dict, next_oid, status_dict, STATUS_LIMIT_CFG, call, ret>>

(* get_task_by_gid (lines 76-86).                                          *)

\* Line 79: hasattr(tk, "seeding") and callable(getattr(tk, "update", None)).
has_seeding_update(tk) == tk.seeding

\* Lines 78-86 from position i on, up to the next await: the position of the
\* task whose update() is awaited, or the outcome of the search.
RECURSIVE GidSearch(_, _, _)
GidSearch(reg, i, gid) ==
    IF i > Len(reg) THEN [awaits |-> 0, found |-> <<>>]                 \* line 86: None
    ELSE IF has_seeding_update(reg[i]) THEN [awaits |-> i, found |-> <<>>]
    ELSE IF reg[i].gid = gid THEN [awaits |-> 0, found |-> <<reg[i]>>]  \* line 85
    ELSE GidSearch(reg, i + 1, gid)

GetTaskByGidCall(p, gid) ==
    /\ pc[p] = "idle"
    /\ pc' = [pc EXCEPT ![p] = "gid_lock"]
    /\ frame' = [frame EXCEPT ![p] = [IdleFrame EXCEPT !.fn = "get_task_by_gid", !.gid = gid]]
    /\ UNCHANGED <<task_dict, task_dict_lock, next_oid, status_dict, STATUS_LIMIT_CFG, call, ret>>

\* What the search does from position i on: suspend in update() holding the
\* lock, or return and release it.
GidContinue(p, i) ==
    LET fr == frame[p]
        s == GidSearch(task_dict, i, fr.gid)
    IN  IF s.awaits > 0
        THEN /\ task_dict_lock' = {p}
             /\ pc' = [pc EXCEPT ![p] = "gid_update"]
             /\ frame' = [frame EXCEPT ![p] = [fr EXCEPT !.i = s.awaits]]
        ELSE /\ task_dict_lock' = {}
             /\ Finish(p, fr, Returned(s.found))

GetTaskByGidAcquire(p) ==
    /\ pc[p] = "gid_lock"
    /\ task_dict_lock = {}
    /\ GidContinue(p, 1)
    /\ UNCHANGED <<task_dict, next_oid, status_dict, STATUS_LIMIT_CFG, call, ret>>

\* A search that ends with the exception of update().
GetTaskByGidUpdatedPropagating(p) ==
    /\ pc[p] = "gid_update"
    /\ LET fr == frame[p]
           tk == task_dict[fr.i]
       IN  IF tk.upd = "raise"
           THEN /\ task_dict_lock' = {}
                /\ Finish(p, fr, Raised("Exception"))
           ELSE IF tk.gid = fr.gid
           THEN /\ task_dict_lock' = {}
                /\ Finish(p, fr, Returned(<<tk>>))
           ELSE GidContinue(p, fr.i + 1)
    /\ UNCHANGED <<task_dict, next_oid, status_dict, STATUS_LIMIT_CFG, call, ret>>

\* tk.update() is over; what it raised is dropped (lines 82-83).  Line 84
\* compares the gid, and the loop goes on.
GetTaskByGidUpdated(p) ==
    /\ pc[p] = "gid_update"
    /\ LET fr == frame[p]
           tk == task_dict[fr.i]
       IN  IF tk.gid = fr.gid
           THEN /\ task_dict_lock' = {}
                /\ Finish(p, fr, Returned(<<tk>>))
           ELSE GidContinue(p, fr.i + 1)
    /\ UNCHANGED <<task_dict, next_oid, status_dict, STATUS_LIMIT_CFG, call, ret>>


(* get_readable_message (lines 247-379), from suspension to suspension.    *)

\* Lines 275-348 from position index on, up to the next await of line 280
\* (filter "All", asynchronous accessor): the text so far and the position of
\* the task whose status is awaited, 0 when the loop is over.
RECURSIVE RenderLoop(_, _, _, _, _)
RenderLoop(slice, index, start_position, status, msg) ==
    IF index > Len(slice) THEN [msg |-> msg, awaits |-> 0]
    ELSE IF status = "All" /\ iscoroutinefunction_status(slice[index])
         THEN [msg |-> msg, awaits |-> index]
         ELSE RenderLoop(slice, index + 1, start_position, status,
                         msg \o RenderBlock(slice[index], index + start_position, status))

\* The loop goes on from position index: the coroutine is suspended in
\* task.status(), or lines 350-379 end the call.
RenderFromIndex(p, fr, index, msg) ==
    LET limit == STATUS_LIMIT_of(STATUS_LIMIT_CFG)
        slice == PageSlice(fr.tasks, fr.start_position, limit)
        r == RenderLoop(slice, index, fr.start_position, fr.status, msg)
    IN  IF r.awaits > 0
        THEN /\ pc' = [pc EXCEPT ![p] = "r_status"]
             /\ frame' = [frame EXCEPT ![p] = [fr EXCEPT !.i = r.awaits, !.msg = r.msg]]
        ELSE Finish(p, [fr EXCEPT !.msg = r.msg],
                    Returned(FinishMessage(r.msg, Len(fr.tasks), limit, fr.page,
                                           fr.is_user, fr.status)))

\* Lines 261-275: the collected list is paginated, the page stored, and the
\* loop starts.
RenderPaginate(p, fr, tasks, sd) ==
    LET limit == STATUS_LIMIT_of(STATUS_LIMIT_CFG)
        page == NormalizePage(fr.page_no, pages_of(Len(tasks), limit))
    IN  /\ status_dict' = StorePage(sd, fr.sid, page)
        /\ RenderFromIndex(p, [fr EXCEPT !.tasks = tasks, !.page = page,
                                         !.start_position = (page - 1) * limit],
                           1, Header)

\* Lines 248-259 and get_specific_tasks up to the gather of line 103.  No
\* lock is taken.
GetReadableMessageCall(p, sid, is_user, page_no, status) ==
    /\ pc[p] = "idle"
    /\ LET user_id == IF is_user THEN sid ELSE None
           fr == [IdleFrame EXCEPT !.fn = "get_readable_message", !.sid = sid,
                                   !.is_user = is_user, !.page_no = page_no,
                                   !.status = status, !.user_id = user_id]
           sd == EnsureEntry(status_dict, sid)
           tasks_to_check == SelectCandidates(task_dict, user_id)
           collected == get_specific_tasks(task_dict, status, user_id)
       IN  IF collected.raised # "no"
           THEN /\ status_dict' = sd
                /\ Finish(p, fr, collected)
           ELSE IF status # "All" /\ coro_tasks_of(tasks_to_check) # <<>>
           THEN /\ status_dict' = sd
                /\ pc' = [pc EXCEPT ![p] = "r_gather"]
                /\ frame' = [frame EXCEPT ![p] = [fr EXCEPT !.tasks = tasks_to_check]]
           ELSE RenderPaginate(p, fr, collected.result, sd)
    /\ UNCHANGED <<task_dict, task_dict_lock, next_oid, STATUS_LIMIT_CFG, call, ret>>

\* The gather is complete: lines 105-126, then the pagination.
GetReadableMessageGathered(p) ==
    /\ pc[p] = "r_gather"
    /\ LET fr == frame[p]
           coro_tasks == coro_tasks_of(fr.tasks)
       IN  RenderPaginate(p, fr,
                          FilterLoop(fr.tasks, coro_tasks, gather_statuses(coro_tasks),
                                     fr.status, 1, 0, <<>>),
                          status_dict)
    /\ UNCHANGED <<task_dict, task_dict_lock, next_oid, STATUS_LIMIT_CFG, call, ret>>

\* A render that collects the list again when task.status() is over.
GetReadableMessageStatusRecollecting(p) ==
    /\ pc[p] = "r_status"
    /\ LET fr == frame[p]
           tasks == get_specific_tasks(task_dict, fr.status, fr.user_id).result
           slice == PageSlice(tasks, fr.start_position, STATUS_LIMIT_of(STATUS_LIMIT_CFG))
       IN  RenderFromIndex(p, [fr EXCEPT !.tasks = tasks], fr.i + 1,
                           IF fr.i > Len(slice) THEN fr.msg
                           ELSE fr.msg \o RenderBlock(slice[fr.i], fr.i + fr.start_position, fr.status))
    /\ UNCHANGED <<task_dict, task_dict_lock, next_oid, status_dict, STATUS_LIMIT_CFG, call, ret>>

\* task.status() of line 280 is over: the block of that task is written (the
\* placeholder if the accessor raised) and the loop goes on.
GetReadableMessageStatus(p) ==
    /\ pc[p] = "r_status"
    /\ LET fr == frame[p]
           slice == PageSlice(fr.tasks, fr.start_position, STATUS_LIMIT_of(STATUS_LIMIT_CFG))
       IN  RenderFromIndex(p, fr, fr.i + 1,
                           fr.msg \o RenderBlock(slice[fr.i], fr.i + fr.start_position, fr.status))
    /\ UNCHANGED <<task_dict, task_dict_lock, next_oid, status_dict, STATUS_LIMIT_CFG, call, ret>>

Next ==
    \/ \E shape \in AdmittedShapes, gid \in Gids : AdmitTask(shape, gid)
    \/ \E i \in 1..MaxTasks : RemoveTask(i)
    \/ \E p \in Coroutines, status \in ConcurrentFilters : GetAllTasksCall(p, status, None)
    \/ \E p \in Coroutines : GetAllTasksAcquire(p)
    \/ \E p \in Coroutines : GetAllTasksGathered(p)
    \/ \E p \in Coroutines, gid \in Gids : GetTaskByGidCall(p, gid)
    \/ \E p \in Coroutines : GetTaskByGidAcquire(p)
    \/ \E p \in Coroutines : GetTaskByGidUpdated(p)
    \/ \E p \in Coroutines, page_no \in ConcurrentPages, status \in ConcurrentFilters :
          GetReadableMessageCall(p, "u1", FALSE, page_no, status)
    \/ \E p \in Coroutines : GetReadableMessageGathered(p)
    \/ \E p \in Coroutines : GetReadableMessageStatus(p)

Spec == Init /\ [][Next]_vars

-----------------------------------------------------------------------------
(* Claims about the lock.                                                  *)

\* C2 - lock discipline: no coroutine that holds task_dict_lock is suspended
\* in per-task I/O, that is in the gather of the tasks' status() inside
\* get_all_tasks or in a task's update() inside get_task_by_gid.
C2_NoTaskIOUnderLock ==
    \A p \in Coroutines : task_dict_lock = {p} => pc[p] \notin {"gat_gather", "gid_update"}

\* C3 - every enumeration of the registry by a render request happens while
\* that request holds task_dict_lock.
C3_RenderEnumeratesUnderLock ==
    [][\A p \in Coroutines :
          (\E page_no \in ConcurrentPages, status \in ConcurrentFilters :
              GetReadableMessageCall(p, "u1", FALSE, page_no, status))
          => task_dict_lock = {p}]_vars

-----------------------------------------------------------------------------
(* Claims about a render among admissions and removals.                    *)

UniqueGids(tasks) == \A i, j \in 1..Len(tasks) : tasks[i].gid = tasks[j].gid => i = j

\* C11 - the task list one render call collects holds no two tasks of equal
\* gid: neither the list of a call that goes through without suspension,
\* nor the list a suspended call carries while tasks are admitted and
\* removed and gids are reused.
C11_SnapshotGidsUnique ==
    [][\A p \in Coroutines :
          /\ pc'[p] \in {"r_gather", "r_status"} => UniqueGids(frame'[p].tasks)
          /\ \A page_no \in ConcurrentPages, status \in ConcurrentFilters :
                GetReadableMessageCall(p, "u1", FALSE, page_no, status)
                => UniqueGids(get_specific_tasks(task_dict, status, None).result)]_vars

\* A render is suspended with two tasks collected while the registry holds a
\* newer task that reuses the gid of one of them.
C11_Witness ==
    \E p \in Coroutines :
        /\ pc[p] = "r_status"
        /\ Len(frame[p].tasks) = 2
        /\ \E i \in 1..Len(task_dict), j \in 1..2 :
              /\ task_dict[i].gid = frame[p].tasks[j].gid
              /\ task_dict[i].oid \notin {frame[p].tasks[k].oid : k \in 1..2}

-----------------------------------------------------------------------------
(* get_progress_bar_string (lines 213-244).                                *)
(* The argument is given by its text str(pct).  The texts of the model     *)
(* denote multiples of a quarter, "nan", infinities, or no number.  A      *)
(* finite value is kept in twelfths of a percent, so that a block is 100   *)
(* twelfths.  The float 100 / 12 lies above 25/3 by e = 2^-49 / 3; the     *)
(* quantities that depend on it are kept as a pair <<twelfths, quarters    *)
(* of e>>, compared first by twelfths and then by quarters of e.           *)

total_blocks == 12
FILLED == "filled"
EMPTY == "empty"
QUARTER == "quarter"
HALF == "half"
THREE_QUARTERS == "three_quarters"

\* str.strip("%"): leading and trailing percent signs are removed.
RECURSIVE lstrip_percent(_)
lstrip_percent(text) ==
    IF Len(text) > 0 /\ text[1] = "%" THEN lstrip_percent(Tail(text)) ELSE text
RECURSIVE rstrip_percent(_)
rstrip_percent(text) ==
    IF Len(text) > 0 /\ text[Len(text)] = "%"
    THEN rstrip_percent(SubSeq(text, 1, Len(text) - 1)) ELSE text
strip_percent(text) == rstrip_percent(lstrip_percent(text))

Unsigned(t) == IF Len(t) > 0 /\ t[1] = "-" THEN Tail(t) ELSE t
IsNegative(t) == Len(t) > 0 /\ t[1] = "-"
NanText == <<"n", "a", "n">>
InfText == <<"i", "n", "f">>

\* float(text) of line 215 on a text with an optional minus sign: it raises
\* ValueError unless the text is a decimal number, "nan" or "inf".
signed_float_ok(text) ==
    LET t == strip(text) IN
    Unsigned(t) \in {NanText, InfText} \/ float_ok(Unsigned(t))

signed_float(text) ==
    LET t == strip(text) IN
    IF Unsigned(t) = NanText THEN [kind |-> "nan", neg |-> IsNegative(t), twelfths |-> 0]
    ELSE IF Unsigned(t) = InfText THEN [kind |-> "inf", neg |-> IsNegative(t), twelfths |-> 0]
    ELSE [kind |-> "num", neg |-> IsNegative(t),
          twelfths |-> (float(Unsigned(t)).num * 12) \div float(Unsigned(t)).den]

\* Line 216: min(max(pct, 0), 100).  max(nan, 0) and min(nan, 100) are nan,
\* because every comparison with nan is false.
Clamp(pct) ==
    IF pct.kind = "nan" THEN pct
    ELSE IF pct.neg THEN [kind |-> "num", neg |-> FALSE, twelfths |-> 0]
    ELSE IF pct.kind = "inf" \/ pct.twelfths > 1200 THEN [kind |-> "num", neg |-> FALSE, twelfths |-> 1200]
    ELSE pct

\* Lines 214-218: the clamped value, 0 when float() raises.
ClampedPct(text) ==
    IF signed_float_ok(strip_percent(text))
    THEN Clamp(signed_float(strip_percent(text)))
    ELSE [kind |-> "num", neg |-> FALSE, twelfths |-> 0]

\* Line 221: int(p / (100 / total_blocks)).  The quotient of 25, 50, 75 or
\* 100 lies below 3, 6, 9 or 12 by less than half a unit in the last place
\* and is rounded to that integer.
FilledBlocks(p) == p \div 100

\* Line 222: p % (100 / total_blocks), which is exact: p minus the whole
\* blocks that fit, one fewer than FilledBlocks for 25, 50, 75 and 100.
WholeBlocks(p) == IF p > 0 /\ p % 100 = 0 THEN (p \div 100) - 1 ELSE p \div 100
RemainingPct(p) == <<p - WholeBlocks(p) * 100, -4 * WholeBlocks(p)>>

PairLess(a, b) == a[1] < b[1] \/ (a[1] = b[1] /\ a[2] < b[2])

\* Lines 230-237: block_unit * 0.25 and block_unit * 0.5 are exact;
\* block_unit * 0.75 lies half way between two floats and is rounded to 6.25.
PartialGlyph(remaining_pct) ==
    IF PairLess(remaining_pct, <<25, 1>>) THEN QUARTER
    ELSE IF PairLess(remaining_pct, <<50, 2>>) THEN HALF
    ELSE IF PairLess(remaining_pct, <<75, 0>>) THEN THREE_QUARTERS
    ELSE FILLED

Repeat(glyph, n) == [i \in 1..n |-> glyph]

\* Lines 220-244 on a finite p.
BarOf(p) ==
    LET filled_blocks == FilledBlocks(p)
        remaining_pct == RemainingPct(p)
        p_str == Repeat(FILLED, filled_blocks)
                 \o (IF PairLess(<<0, 0>>, remaining_pct) /\ filled_blocks < total_blocks
                     THEN <<PartialGlyph(remaining_pct)>> ELSE <<>>)
        empty_blocks == total_blocks - Len(p_str)
    IN  <<"[">> \o p_str \o Repeat(EMPTY, Max(0, empty_blocks)) \o <<"]">>

\* int() of line 221 raises ValueError on nan, outside the try of line 214.
get_progress_bar_string(text) ==
    LET p == ClampedPct(text) IN
    IF p.kind = "nan" THEN Raised("ValueError") ELSE Returned(BarOf(p.twelfths))

QuarterFractions == {<<>>, <<".", "2", "5">>, <<".", "5">>, <<".", "7", "5">>}
OtherTexts ==
    {NanText, NanText \o <<"%">>, <<"-">> \o NanText, InfText, <<"-">> \o InfText,
     <<>>, <<"%">>, <<"-">>, <<"a", "b", "c">>, <<"N", "o", "n", "e">>,
     <<"5", "%", "0">>, <<"1", ".", "2", ".", "5">>, <<" ", "5", "0", " ">>, <<"%", "5", "0", "%", "%">>}
PctTexts ==
    {sign \o Digits(n) \o fraction \o suffix :
        sign \in {<<>>, <<"-">>}, n \in 0..MaxPct, fraction \in QuarterFractions,
        suffix \in {<<>>, <<"%">>}}
    \cup OtherTexts

InitBar ==
    /\ call \in {[fn |-> "get_progress_bar_string", text |-> t] : t \in PctTexts}
    /\ ret = NotDone
    /\ task_dict = <<>>
    /\ task_dict_lock = {}
    /\ next_oid = 1
    /\ status_dict = <<>>
    /\ STATUS_LIMIT_CFG = 0
    /\ pc = NoCoroutines
    /\ frame = NoCoroutines

CallProgressBar ==
    /\ call.fn = "get_progress_bar_string"
    /\ ~ret.done
    /\ ret' = Done(get_progress_bar_string(call.text))
    /\ UNCHANGED <<task_dict, task_dict_lock, next_oid, status_dict, STATUS_LIMIT_CFG, pc, frame, call>>

SpecBar == InitBar /\ [][CallProgressBar]_vars

BarDone == call.fn = "get_progress_bar_string" /\ ret.done

\* The bar of n filled glyphs, an optional partial glyph and empty glyphs.
IsBar(bar) ==
    /\ Len(bar) = total_blocks + 2
    /\ bar[1] = "[" /\ bar[Len(bar)] = "]"
    /\ \E n \in 0..total_blocks, partial \in {<<>>, <<QUARTER>>, <<HALF>>, <<THREE_QUARTERS>>} :
          /\ n + Len(partial) <= total_blocks
          /\ SubSeq(bar, 2, total_blocks + 1)
               = Repeat(FILLED, n) \o partial \o Repeat(EMPTY, total_blocks - n - Len(partial))
AllEmpty == <<"[">> \o Repeat(EMPTY, total_blocks) \o <<"]">>
AllFilled == <<"[">> \o Repeat(FILLED, total_blocks) \o <<"]">>

\* C12 - on every input the progress bar is twelve glyphs in brackets, the
\* filled ones first, then at most one partial glyph, then the empty ones;
\* 0, values below 0 and texts that are no finite number give twelve empty
\* glyphs, 100 and values above 100 give twelve filled glyphs.
C12_ProgressBar ==
    BarDone =>
        LET t == strip_percent(call.text)
            pct == signed_float(t)
        IN  /\ ret.raised = "no"
            /\ IsBar(ret.result)
            /\ (~signed_float_ok(t) \/ pct.kind = "nan" \/ pct.neg \/ (pct.kind = "num" /\ pct.twelfths = 0))
                  => ret.result = AllEmpty
            /\ (signed_float_ok(t) /\ ~pct.neg /\ (pct.kind = "inf" \/ (pct.kind = "num" /\ pct.twelfths >= 1200)))
                  => ret.result = AllFilled

-----------------------------------------------------------------------------
(* The filter rule: calls of get_specific_tasks with every specific filter *)
(* on tasks of known statuses, of an engine name as status, and of the     *)
(* status "All".                                                           *)

MaxMatchReg == 2
MatchStatuses == {"Download", "Seed", "Upload", "QueueUp", "All", "Aria2 v1.37", "raise"}
MatchShapes ==
    {Task(0, 0, "u1", a, st, "none", FALSE, FALSE, "ok") : a \in {"sync", "async"}, st \in MatchStatuses}
MatchFilters == STATUSES_values \ {"All"}

InitMatch ==
    /\ task_dict \in {WithOids(s) : s \in SeqsUpTo(MatchShapes, MaxMatchReg)}
    /\ call \in {[fn |-> "get_specific_tasks", status |-> f, user_id |-> None] : f \in MatchFilters}
    /\ ret = NotDone
    /\ task_dict_lock = {}
    /\ next_oid = Len(task_dict) + 1
    /\ status_dict = <<>>
    /\ STATUS_LIMIT_CFG = 0
    /\ pc = NoCoroutines
    /\ frame = NoCoroutines

SpecMatch == InitMatch /\ [][CallCollect]_vars

Resolved(tk) == tk.st # "raise"
KnownStatus(s) == s \in STATUSES_values
InResult(tk) == tk \in Range(ret.result)

\* C13 - the filter rule: a task whose status resolved to s is returned under
\* the filter F exactly when s = F, or F is Download and s is neither a known
\* status nor "All"; so an unknown status is returned under Download and
\* under no other filter, and a known status only under the filter equal to
\* it.
C13_FilterRule ==
    (CollectDone /\ call.status # "All") =>
        /\ ret.raised = "no"
        /\ \A i \in 1..Len(task_dict) :
              LET tk == task_dict[i]
                  s == tk.st
                  F == call.status
              IN  Resolved(tk) =>
                    /\ InResult(tk) <=> (s = F \/ (F = "Download" /\ ~KnownStatus(s) /\ s # "All"))
                    /\ ~KnownStatus(s) => (InResult(tk) <=> F = "Download")
                    /\ KnownStatus(s) => (InResult(tk) <=> F = s)

\* A Download call returned a task with an engine name as status next to a
\* task of status "All" that it left out.
C13_Witness ==
    /\ CollectDone
    /\ call.status = "Download"
    /\ \E i, j \in 1..Len(task_dict) :
          /\ task_dict[i].st = "Aria2 v1.37" /\ InResult(task_dict[i])
          /\ task_dict[j].st = "All" /\ ~InResult(task_dict[j])

-----------------------------------------------------------------------------
(* The filter "All".                                                       *)

\* C14 - with the filter "All" the call polls no status: it returns every
\* task that has a listener, of the viewer alone when a viewer is given, in
\* registry order, the tasks whose status accessor is missing or fails among
\* them; and it returns whenever every registry entry has the fields the
\* call reads.
C14_AllFastPath ==
    (CollectDone /\ call.status = "All") =>
        /\ ret.raised = "no" =>
              ret.result = SelectSeq(task_dict, LAMBDA tk : IsCandidate(tk, call.user_id))
        /\ (\A i \in 1..Len(task_dict) : HasRequiredFields(task_dict[i], call.user_id, "All"))
              => ret.raised = "no"

\* The viewer's three tasks are returned: one whose accessor raises, one
\* without an accessor and one that is seeding.
C14_Witness ==
    /\ CollectDone /\ call.status = "All" /\ call.user_id = "u1"
    /\ Len(task_dict) = 3
    /\ task_dict[1].listener = "u1" /\ task_dict[1].st = "raise" /\ task_dict[1].accessor = "async"
    /\ task_dict[2].listener = "u1" /\ task_dict[2].accessor = "absent"
    /\ task_dict[3].listener = "u1" /\ task_dict[3].st = "Seed"
    /\ ret.raised = "no"
    /\ ret.result = task_dict

-----------------------------------------------------------------------------
(* Progress.  Every status() and update() that is awaited terminates, and  *)
(* the event loop resumes the coroutine that awaited it.                   *)

SpecLive ==
    /\ Spec
    /\ \A p \in Coroutines : WF_vars(GetAllTasksGathered(p)) /\ WF_vars(GetTaskByGidUpdated(p))

\* C15 - a coroutine that has taken task_dict_lock in get_all_tasks or
\* get_task_by_gid releases it, also when status() or update() of a task
\* raises; the lock is free again for an admission or a removal.
C15_LockReleased ==
    \A p \in Coroutines : (task_dict_lock = {p}) ~> (task_dict_lock = {})

\* The lock is held across an update() that raises and across a gather with
\* a status() that raises.
C15_Witness ==
    \E p \in Coroutines :
        /\ task_dict_lock = {p}
        /\ \/ pc[p] = "gid_update" /\ task_dict[frame[p].i].upd = "raise"
           \/ pc[p] = "gat_gather" /\ \E i \in 1..Len(frame[p].tasks) : frame[p].tasks[i].st = "raise"

-----------------------------------------------------------------------------
(* A render suspended while the registry changes.                          *)

\* The list a suspended render works on: the collected list once the loop
\* has started, before that the candidates that pass the filter.
ListOf(fr, at) ==
    IF at = "r_status" THEN fr.tasks
    ELSE SelectSeq(fr.tasks, LAMBDA tk :
            /\ tk.st # "raise"
            /\ \/ tk.st = fr.status
               \/ fr.status = "Download" /\ tk.st \notin STATUSES_values)

IsPrefix(a, b) == Len(a) <= Len(b) /\ SubSeq(b, 1, Len(a)) = a

\* C16 - stable pagination: a render that was suspended keeps the list it
\* collected, its page and what it has written, whatever is admitted to or
\* removed from the registry meanwhile; when it completes, its output is the
\* output of an uninterrupted render of that list: the slots of the one
\* slice, numbered by position in the list, each with its block or
\* placeholder.
C16_StablePagination ==
    [][\A p \in Coroutines :
          pc[p] \in {"r_gather", "r_status"} =>
             LET fr == frame[p]
                 tasks == ListOf(fr, pc[p])
                 limit == STATUS_LIMIT_of(STATUS_LIMIT_CFG)
             IN  /\ pc'[p] = "r_gather" => frame'[p] = fr
                 /\ pc'[p] = "r_status" =>
                       /\ frame'[p].tasks = tasks
                       /\ pc[p] = "r_status" =>
                             /\ frame'[p].page = fr.page
                             /\ frame'[p].start_position = fr.start_position
                             /\ frame'[p].i >= fr.i
                             /\ IsPrefix(fr.msg, frame'[p].msg)
                             /\ frame'[p].i = fr.i => frame'[p] = fr
                 /\ pc'[p] = "done" =>
                       LET out == frame'[p].out
                           page == out.result.page_no
                           shown == {q.slot : q \in Range(out.result.msg)} \ {0}
                       IN  /\ out.raised = "no"
                           /\ out.result = RenderCollected(tasks, STATUS_LIMIT_CFG, fr.sid,
                                                           fr.is_user, fr.page_no, fr.status)
                           /\ pc[p] = "r_status" => IsPrefix(fr.msg, out.result.msg)
                           /\ shown = ((page - 1) * limit + 1)..Min(page * limit, Len(tasks))]_vars

\* A render waits for the status of a task of its slice that has been
\* removed from the registry, and a task admitted after the collection is in
\* the registry.
C16_Witness ==
    \E p \in Coroutines :
        /\ pc[p] = "r_status"
        /\ LET fr == frame[p]
               awaited == fr.tasks[fr.start_position + fr.i]
               oids == {task_dict[i].oid : i \in 1..Len(task_dict)}
           IN  /\ awaited.oid \notin oids
               /\ \E o \in oids : o \notin {fr.tasks[k].oid : k \in 1..Len(fr.tasks)}

-----------------------------------------------------------------------------
(* Pages of longer lists: renders of registries of up to MaxPartitionTasks *)
(* tasks, every second one with a name() that raises, so that the blocks   *)
(* of neighbouring tasks differ.                                           *)

MaxPartitionTasks == 12
NameFaultTask == Task(0, 0, "u1", "sync", "Download", "name", TRUE, FALSE, "ok")
Alternating(n) == WithOids([i \in 1..n |-> IF i % 2 = 1 THEN PlainTask ELSE NameFaultTask])

InitPartition ==
    /\ task_dict \in {Alternating(n) : n \in 0..MaxPartitionTasks}
    /\ call \in {RenderCall("u1", FALSE, p, "All") : p \in (-MaxPage)..MaxPage}
    /\ STATUS_LIMIT_CFG \in 0..MaxLimit
    /\ status_dict = OtherViewerOnly
    /\ ret = NotDone
    /\ task_dict_lock = {}
    /\ next_oid = Len(task_dict) + 1
    /\ pc = NoCoroutines
    /\ frame = NoCoroutines

SpecPartition == InitPartition /\ [][CallRender]_vars

RECURSIVE Concat(_, _)
Concat(f, k) == IF k = 0 THEN <<>> ELSE Concat(f, k - 1) \o f[k]

\* C17 - pages partition the filtered list: with the page size of the
\* configuration, 10 when it is 0, the number of pages is the least m >= 1
\* with m * size >= count; the slices of the pages 1..m are at most size
\* long, non-empty when there is a task, and in page order make up the list;
\* the call renders the slice of its page, each task under its position in
\* the list.
C17_PagesPartition ==
    (RenderDone /\ ret.raised = "no") =>
        LET tasks == Collected.result
            n == Len(tasks)
            size == IF STATUS_LIMIT_CFG = 0 THEN 10 ELSE STATUS_LIMIT_CFG
            m == CHOOSE k \in 1..(n + 1) : k * size >= n /\ (k = 1 \/ (k - 1) * size < n)
            slices == [k \in 1..m |-> PageSlice(tasks, (k - 1) * STATUS_LIMIT_of(STATUS_LIMIT_CFG),
                                                STATUS_LIMIT_of(STATUS_LIMIT_CFG))]
            page == ret.result.page_no
            shown == {q.slot : q \in Range(ret.result.msg)} \ {0}
        IN  /\ STATUS_LIMIT_of(STATUS_LIMIT_CFG) = size
            /\ pages_of(n, size) = m
            /\ \A k \in 1..m : Len(slices[k]) <= size /\ (n > 0 => Len(slices[k]) >= 1)
            /\ Concat(slices, m) = tasks
            /\ page \in 1..m
            /\ shown = {i \in 1..n : (page - 1) * size < i /\ i <= page * size}
            /\ \A i \in shown :
                  SlotPieces(ret.result.msg, i) = RenderBlock(tasks[i], i, call.status)

\* Twelve tasks with the fallback size 10: page 2 shows the tasks 11 and 12.
C17_Witness ==
    /\ RenderDone /\ ret.raised = "no"
    /\ Len(task_dict) = 12 /\ STATUS_LIMIT_CFG = 0
    /\ ret.result.page_no = 2
    /\ {q.slot : q \in Range(ret.result.msg)} \ {0} = {11, 12}

-----------------------------------------------------------------------------
(* Concurrent renders when another viewer has viewed before.               *)

InitFrame ==
    /\ task_dict = <<>>
    /\ task_dict_lock = {}
    /\ next_oid = 1
    /\ status_dict = OtherViewerOnly
    /\ STATUS_LIMIT_CFG = ConcurrentLimit
    /\ pc = [p \in Coroutines |-> "idle"]
    /\ frame = [p \in Coroutines |-> IdleFrame]
    /\ call = NoCall
    /\ ret = NotDone

SpecFrame == InitFrame /\ [][Next]_vars

\* The renders for viewer v that have stored their page, and the page each
\* has stored.
PageWriters(v, pcs, frames) ==
    {p \in Coroutines :
        /\ frames[p].fn = "get_readable_message" /\ frames[p].sid = v
        /\ \/ pcs[p] = "r_status"
           \/ pcs[p] = "done" /\ frames[p].out.raised = "no"}
PageWritten(p, pcs, frames) ==
    IF pcs[p] = "r_status" THEN frames[p].page ELSE frames[p].out.result.page_no

\* C18 - frame of a render: a step of a render for viewer v leaves task_dict
\* and the page of every other viewer as they were; the entry of v is
\* created on first view and its page is set to the normalized page; no
\* other step changes status_dict; and after every step the page stored for
\* v is the one written by one of the renders for v, the initial 1 when none
\* has written yet.
C18_RenderFrame ==
    [][/\ \A p \in Coroutines :
             (pc'[p] # pc[p] /\ frame'[p].fn = "get_readable_message") =>
                LET v == frame'[p].sid IN
                /\ task_dict' = task_dict
                /\ DOMAIN status_dict' = DOMAIN status_dict \cup {v}
                /\ \A w \in DOMAIN status_dict : w # v => status_dict'[w] = status_dict[w]
                /\ (pc[p] \in {"idle", "r_gather"} /\ p \in PageWriters(v, pc', frame'))
                      => /\ status_dict'[v].page_no = PageWritten(p, pc', frame')
                         /\ status_dict'[v].page_no \in
                               1..Max(1, Len(task_dict) + Len(frame[p].tasks))
       /\ (\A p \in Coroutines : pc'[p] = pc[p] \/ frame'[p].fn # "get_readable_message")
             => status_dict' = status_dict
       /\ \A v \in DOMAIN status_dict' \ DOMAIN OtherViewerOnly :
             LET writers == PageWriters(v, pc', frame') IN
             IF writers = {} THEN status_dict'[v].page_no = 1
             ELSE \E p \in writers : status_dict'[v].page_no = PageWritten(p, pc', frame')]_vars

\* A render that stored page 2 is suspended; a later render for the same
\* viewer has stored page 1, which is the page kept; the other viewer's page
\* is as it was.
C18_Witness ==
    \E p, q \in Coroutines :
        /\ pc[p] = "r_status" /\ frame[p].fn = "get_readable_message" /\ frame[p].page = 2
        /\ pc[q] = "done" /\ frame[q].fn = "get_readable_message"
        /\ frame[q].out.raised = "no" /\ frame[q].out.result.page_no = 1
        /\ status_dict["u1"].page_no = 1
        /\ status_dict["u2"].page_no = 2

-----------------------------------------------------------------------------
(* Searches by gid on a registry that does not change, also one in which   *)
(* two tasks answer the same gid.                                          *)

MaxGidReg == 3
GidShapes == {[shape EXCEPT !.gid = g] : shape \in AdmittedShapes, g \in Gids}
GidRegistries ==
    {[i \in 1..Len(s) |-> [s[i] EXCEPT !.oid = i]] : s \in SeqsUpTo(GidShapes, MaxGidReg)}

InitGid ==
    /\ task_dict \in GidRegistries
    /\ task_dict_lock = {}
    /\ next_oid = Len(task_dict) + 1
    /\ status_dict = <<>>
    /\ STATUS_LIMIT_CFG = ConcurrentLimit
    /\ pc = [p \in Coroutines |-> "idle"]
    /\ frame = [p \in Coroutines |-> IdleFrame]
    /\ call = NoCall
    /\ ret = NotDone

NextGid ==
    \/ \E p \in Coroutines, gid \in Gids : GetTaskByGidCall(p, gid)
    \/ \E p \in Coroutines : GetTaskByGidAcquire(p)
    \/ \E p \in Coroutines : GetTaskByGidUpdated(p)

SpecGid == InitGid /\ [][NextGid]_vars

\* C19 - get_task_by_gid returns the first task in registry order whose gid
\* is the requested one, None when there is none; an update() that raises
\* during the search neither ends the search nor changes what is returned.
C19_FirstByGid ==
    [][\A p \in Coroutines :
          (pc[p] \in {"gid_lock", "gid_update"} /\ pc'[p] = "done") =>
             LET hits == {i \in 1..Len(task_dict) : task_dict[i].gid = frame[p].gid}
                 out == frame'[p].out
             IN  /\ out.raised = "no"
                 /\ out.result = IF hits = {} THEN <<>>
                                 ELSE <<task_dict[CHOOSE i \in hits : \A j \in hits : i <= j]>>]_vars

\* The search passed a seeding task whose update() raises and returned the
\* first of two tasks that answer the gid.
C19_Witness ==
    \E p \in Coroutines :
        /\ pc[p] = "done" /\ frame[p].fn = "get_task_by_gid"
        /\ Len(task_dict) = 3
        /\ task_dict[1].gid # frame[p].gid /\ task_dict[1].seeding /\ task_dict[1].upd = "raise"
        /\ task_dict[2].gid = frame[p].gid
        /\ task_dict[3].gid = frame[p].gid
        /\ frame[p].out.raised = "no"
        /\ frame[p].out.result = <<task_dict[2]>>

-----------------------------------------------------------------------------
(* get_raw_time (lines 167-172), and the round trip of a duration through  *)
(* its text.                                                               *)

\* Line 168: the seconds of each unit.
time_units_minutes(unit) ==
    CASE unit = "d" -> 86400 [] unit = "h" -> 60 [] unit = "m" -> 60 [] unit = "s" -> 1
time_units(unit) ==
    CASE unit = "d" -> 86400 [] unit = "h" -> 3600 [] unit = "m" -> 60 [] unit = "s" -> 1

\* The end of the run of digits that starts at position i.
RECURSIVE DigitRunEnd(_, _)
DigitRunEnd(text, i) ==
    IF i < Len(text) /\ IsDigit(text[i + 1]) THEN DigitRunEnd(text, i + 1) ELSE i

\* Lines 169-172: findall(r"(\d+)([dhms])", time_str) from position i on,
\* summed.  A match is a whole run of digits with a unit letter right after
\* it; a run followed by anything else holds no match.
RECURSIVE RawTimeFrom(_, _)
RawTimeFrom(time_str, i) ==
    IF i > Len(time_str) THEN 0
    ELSE IF ~IsDigit(time_str[i]) THEN RawTimeFrom(time_str, i + 1)
    ELSE LET j == DigitRunEnd(time_str, i) IN
         IF j < Len(time_str) /\ time_str[j + 1] \in {"d", "h", "m", "s"}
         THEN DigitsValue(SubSeq(time_str, i, j), 0) * time_units(time_str[j + 1])
              + RawTimeFrom(time_str, j + 2)
         ELSE RawTimeFrom(time_str, j + 1)

get_raw_time(time_str) == RawTimeFrom(time_str, 1)

\* The text get_readable_time returned is handed to get_raw_time.
CallGetRawTime ==
    /\ call.fn = "get_readable_time"
    /\ ret.done
    /\ call' = [fn |-> "get_raw_time", seconds |-> call.seconds, time_str |-> ret.result]
    /\ ret' = Done(Returned(get_raw_time(ret.result)))
    /\ UNCHANGED <<task_dict, task_dict_lock, next_oid, status_dict, STATUS_LIMIT_CFG, pc, frame>>

NextRoundTrip == CallReadableTime \/ CallGetRawTime

SpecRoundTrip == InitTime /\ [][NextRoundTrip]_vars

\* C20 - duration round trip: the text get_readable_time gives for n >= 0
\* seconds is read back by get_raw_time as n.
C20_DurationRoundTrip ==
    (call.fn = "get_raw_time" /\ ret.done /\ call.seconds >= 0) => ret.result = call.seconds

\* 90061 seconds go through the text "1d1h1m1s".
C20_Witness ==
    /\ call.fn = "get_raw_time" /\ ret.done
    /\ call.seconds = 90061
    /\ call.time_str = <<"1", "d", "1", "h", "1", "m", "1", "s">>
    /\ ret.result = 90061

=============================================================================
